---- MODULE Spec2Model ----
(***************************************************************************)
(* Model of the Redis-backed cache of package cache (src/cache/cache.go):  *)
(* the six operations of RedisCache, the gob entry codec, the SCAN cursor  *)
(* loop of getKeys, the connection handles borrowed from the pool, and the *)
(* backing store the commands act on; and of the part of New               *)
(* (src/devify.go) that installs the cache in the application.             *)
(*                                                                         *)
(* Strings that the code takes apart (prefixes, logical keys, patterns,    *)
(* wire keys) are sequences of one-character strings.  Byte slices are     *)
(* sequences of tokens.                                                    *)
(***************************************************************************)
EXTENDS Integers, Sequences, FiniteSets, TLC

(***************************************************************************)
(* Inputs                                                                  *)
(***************************************************************************)

\* The callers that can invoke cache operations.
Callers == {"c1", "c2"}

\* RedisCache.Prefix of the cache instances sharing the store.  The prefix is
\* the raw REDIS_PREFIX string: "p" is an ordinary one, "*" and "\" are
\* characters the store's glob matcher gives a meaning to.
Prefixes == {<<"p">>, <<"*">>, <<"\\">>}

\* Logical keys handed to Has/Get/Set/Forget.
LogicalKeys == {<<"o">>, <<"u", "1">>, <<"u", ":", "1">>}

\* Patterns handed to EmptyByMatch.
Patterns == {<<>>, <<"*">>, <<"u">>, <<"u", "*">>, <<"u", ":">>}

\* Go values handed to Set: a string, an int, the nil interface, and a value
\* of a type gob cannot encode (a channel).
Hello == [t |-> "string", d |-> "hello"]
FortyTwo == [t |-> "int", d |-> "42"]
Nil == [t |-> "nil", d |-> ""]
Chan == [t |-> "chan", d |-> "ch"]
Values == {Hello, FortyTwo, Nil, Chan}

\* The variadic expires argument of Set: absent, one number of seconds
\* (positive, zero or negative), or several.
ExpireArgs == {<<>>, <<0>>, <<1>>, <<-1>>, <<1, 0>>}

\* Number of SCAN steps a full iteration of the keyspace takes.
NSlots == 2

\* redis.Pool.MaxActive of the pool createRedisPool builds.
MaxActive == 10000

\* Seconds counted after a Set before the count stops.
MaxAge == 3

(***************************************************************************)
(* Key Namespacer                                                          *)
(***************************************************************************)

\* Variant: the logical key is sent as it is, without the prefix.
WireKeyBare(prefix, str) == str

\* fmt.Sprintf("%s:%s", c.Prefix, str)
WireKey(prefix, str) == prefix \o <<":">> \o str

\* strings.HasSuffix(s, ":")
HasSuffixColon(s) == Len(s) > 0 /\ s[Len(s)] = ":"

\* strings.HasPrefix(s, pre)
HasPrefix(s, pre) == Len(s) >= Len(pre) /\ SubSeq(s, 1, Len(pre)) = pre

\* The namespace of the cache with this prefix: the wire keys that start
\* with the prefix followed by ':'.
InNamespace(prefix, key) == HasPrefix(key, prefix \o <<":">>)

\* The wire keys the caches of the model can name.
WireKeys == {WireKey(pf, k) : pf \in Prefixes, k \in LogicalKeys}

(***************************************************************************)
(* The store's glob matcher (MATCH argument of SCAN): '*' matches any run  *)
(* of characters, '\' makes the next pattern character literal, any other  *)
(* character matches itself.                                               *)
(***************************************************************************)
RECURSIVE Glob(_, _)
Glob(pat, s) ==
    IF pat = <<>> THEN s = <<>>
    ELSE IF Head(pat) = "*"
         THEN Glob(Tail(pat), s) \/ (s # <<>> /\ Glob(pat, Tail(s)))
    ELSE IF Head(pat) = "\\" /\ Len(pat) >= 2
         THEN s # <<>> /\ Head(s) = pat[2] /\ Glob(Tail(Tail(pat)), Tail(s))
    ELSE s # <<>> /\ Head(s) = Head(pat) /\ Glob(Tail(pat), Tail(s))

(***************************************************************************)
(* Entry Codec.  gob writes a map as its element count followed by, for    *)
(* each element, the key and the interface value: the registered name of   *)
(* the concrete type and the value, or the empty name alone for nil.       *)
(***************************************************************************)
NumTok(n) == CASE n = 0 -> "0" [] n = 1 -> "1" [] OTHER -> "2"

\* Variant: every value is taken as encodable, whatever its type.
EncodableAny(v) == TRUE

\* The types gob registers by default; a channel is not encodable.
Encodable(v) == v.t \in {"string", "int", "nil"}

encodeValue(v) == IF v.t = "nil" THEN <<"">> ELSE <<v.t, v.d>>

RECURSIVE encodeFields(_, _)
encodeFields(item, names) ==
    IF names = {} THEN <<>>
    ELSE LET f == CHOOSE x \in names : TRUE
         IN <<f>> \o encodeValue(item[f]) \o encodeFields(item, names \ {f})

\* encode(item Entry) ([]byte, error)
encode(item) ==
    IF \E f \in DOMAIN item : ~Encodable(item[f])
    THEN [b |-> <<>>, err |-> "encode"]
    ELSE [b |-> <<"map", NumTok(Cardinality(DOMAIN item))>>
                 \o encodeFields(item, DOMAIN item),
          err |-> "nil"]

\* One element of the map at the head of the token sequence s:
\* ok, the field name, the value, and the tokens left.
decodeField(s) ==
    IF Len(s) >= 2 /\ s[2] = ""
    THEN [ok |-> TRUE, f |-> s[1], v |-> Nil, rest |-> SubSeq(s, 3, Len(s))]
    ELSE IF Len(s) >= 3 /\ s[2] \in {"string", "int"}
    THEN [ok |-> TRUE, f |-> s[1], v |-> [t |-> s[2], d |-> s[3]],
          rest |-> SubSeq(s, 4, Len(s))]
    ELSE [ok |-> FALSE, f |-> "", v |-> Nil, rest |-> <<>>]

RECURSIVE decodeFields(_, _)
decodeFields(n, s) ==
    IF n = 0 THEN [ok |-> s = <<>>, item |-> <<>>]
    ELSE LET fld == decodeField(s)
         IN IF ~fld.ok THEN [ok |-> FALSE, item |-> <<>>]
            ELSE LET more == decodeFields(n - 1, fld.rest)
                 IN [ok |-> more.ok, item |-> <<<<fld.f, fld.v>>>> \o more.item]

\* decode(data []byte) (Entry, error).  The Entry is the sequence of its
\* <<field, value>> pairs.
decode(data) ==
    IF Len(data) >= 2 /\ data[1] = "map" /\ data[2] \in {"0", "1", "2"}
    THEN LET n == CASE data[2] = "0" -> 0 [] data[2] = "1" -> 1 [] OTHER -> 2
             r == decodeFields(n, SubSeq(data, 3, Len(data)))
         IN IF r.ok THEN [item |-> r.item, err |-> "nil"]
            ELSE [item |-> <<>>, err |-> "decode"]
    ELSE [item |-> <<>>, err |-> "decode"]

(***************************************************************************)
(* State                                                                   *)
(***************************************************************************)
VARIABLES
    store,     \* the backing store: wire key -> [data: bytes, exp: seconds left, 0 = none]
    pc,        \* per caller: where its current call stands
    call,      \* per caller: the operation in progress and its arguments
    held,      \* per caller: connections borrowed from the pool and not yet closed
    borrows,   \* per caller: number of Pool.Get calls made by its current or last call
    iter,      \* per caller: getKeys' cursor
    keys,      \* per caller: getKeys' accumulated keys
    ret,       \* per caller: what its last completed call returned
    lastSet,   \* wire key -> the value stored by a successful Set without TTL
               \* that nothing has touched since
    inputs,    \* the callers, caches and arguments of this run (never changes)
    sent,      \* per caller: the commands its current or last call sent, in order
    since,     \* wire key -> the Set the store last executed on it, while nothing
               \* else wrote or deleted the key: its expiry (0 = none), the seconds
               \* passed since, what the key held before, whether the Set
               \* returned nil, whether a bulk delete had already found the key
               \* and not yet sent its DEL, and whether the key's namespace has
               \* been empty since (recorded in the runs where inputs.history is
               \* set)
    app        \* the application object that New sets up

vars == <<store, pc, call, held, borrows, iter, keys, ret, lastSet, inputs, sent, since, app>>

\* cancelAt: the number of commands the call had sent when its caller's
\* cancellation signal fired, -1 while it has not.  conn, scanConn: what
\* c.Conn.Get() handed to the operation and to getKeys, a connection ("ok")
\* or, the pool being exhausted, a connection that fails every command.
\* match: getKeys' local matchPattern, the MATCH argument of its SCANs.
NoCall == [op |-> "none", prefix |-> <<>>, arg |-> <<>>, value |-> Nil, expires |-> <<>>,
           cancelAt |-> -1, conn |-> "ok", scanConn |-> "ok", match |-> <<>>]

\* The application object before New: no Cache installed, config at its zero value.
NoApp == [pc |-> "none", CACHE |-> "", REDIS_PREFIX |-> <<>>,
          config |-> [redis |-> [prefix |-> <<>>]],
          Cache |-> [installed |-> FALSE, Prefix |-> <<>>]]
NoRet == [op |-> "none", prefix |-> <<>>, arg |-> <<>>, has |-> FALSE, val |-> Nil,
          err |-> "nil", ndel |-> 0, removed |-> 0, stale |-> 0]

InitState ==
    /\ store = <<>>
    /\ pc = [p \in Callers |-> "idle"]
    /\ call = [p \in Callers |-> NoCall]
    /\ held = [p \in Callers |-> 0]
    /\ borrows = [p \in Callers |-> 0]
    /\ iter = [p \in Callers |-> 0]
    /\ keys = [p \in Callers |-> <<>>]
    /\ ret = [p \in Callers |-> NoRet]
    /\ lastSet = <<>>
    /\ sent = [p \in Callers |-> <<>>]
    /\ since = <<>>

(***************************************************************************)
(* The backing store's commands                                            *)
(***************************************************************************)
\* The elements of a sequence.
Range(sq) == {sq[i] : i \in 1..Len(sq)}

\* f without the keys in ks.
Without(f, ks) == [k \in DOMAIN f \ ks |-> f[k]]

\* f with k bound to x.
With(f, k, x) == [j \in DOMAIN f \cup {k} |-> IF j = k THEN x ELSE f[j]]

\* EXISTS key
Exists(key) == key \in DOMAIN store

\* Variant: SET keeps the expiry the key already carried.
StoreSETKeepTTL(key, data) ==
    With(store, key, [data |-> data, exp |-> IF Exists(key) THEN store[key].exp ELSE 0])

\* SET key data: the value, and no expiry.
StoreSET(key, data) == With(store, key, [data |-> data, exp |-> 0])

\* SETEX key seconds data: the value and its expiry in one command.
StoreSETEX(key, seconds, data) == With(store, key, [data |-> data, exp |-> seconds])

\* Variant: DEL removes nothing unless every key it names is there.
StoreDELAllOrNothing(ks) == IF ks \subseteq DOMAIN store THEN Without(store, ks) ELSE store

\* Variant: DEL spares the keys written since a bulk delete found them.
StoreDELSparesFresh(ks) ==
    Without(store, {k \in ks : k \notin DOMAIN since \/ ~since[k].during})

\* DEL key [key ...]
StoreDEL(ks) == Without(store, ks)

(***************************************************************************)
(* Entering and leaving a call                                             *)
(***************************************************************************)
\* The connections borrowed from the pool and not yet closed.
RECURSIVE SumHeld(_)
SumHeld(S) == IF S = {} THEN 0 ELSE LET x == CHOOSE y \in S : TRUE IN held[x] + SumHeld(S \ {x})

Active == SumHeld(Callers)

\* Pool.Get(): a connection while fewer than MaxActive are out; otherwise
\* (Wait is not set) a connection whose every command fails with
\* ErrPoolExhausted and whose Close does nothing.
PoolGet == IF Active < inputs.maxActive THEN "ok" ELSE "exhausted"

\* conn := c.Conn.Get() at the top of an operation.
Borrow(p, op, prefix, arg, value, expires) ==
    /\ pc[p] = "idle"
    /\ pc' = [pc EXCEPT ![p] = op]
    /\ call' = [call EXCEPT ![p] = [op |-> op, prefix |-> prefix, arg |-> arg,
                                    value |-> value, expires |-> expires,
                                    cancelAt |-> -1, conn |-> PoolGet, scanConn |-> "ok",
                                    match |-> <<>>]]
    /\ held' = [held EXCEPT ![p] = IF PoolGet = "ok" THEN 1 ELSE 0]
    /\ borrows' = [borrows EXCEPT ![p] = 1]
    /\ ret' = [ret EXCEPT ![p] = NoRet]
    /\ sent' = [sent EXCEPT ![p] = <<>>]
    /\ UNCHANGED <<store, iter, keys, lastSet, inputs, since, app>>

\* Variant: only the connection of the operation itself is closed.
DeferredCloseOwn(p) == [held EXCEPT ![p] = IF @ > 0 THEN @ - 1 ELSE 0]

\* The deferred conn.Close() calls that run when the operation returns.
DeferredClose(p) == [held EXCEPT ![p] = 0]

\* return: the result is handed to the caller and every deferred Close runs.
\* ndel records how many keys the call had handed to a DEL the store
\* executed, removed how many keys that DEL removed (its reply, which the
\* code discards), and stale how many of the keys handed over were no longer
\* in the store.
ReturnDel(p, has, val, err, ndel, dels) ==
    /\ ret' = [ret EXCEPT ![p] = [op |-> call[p].op, prefix |-> call[p].prefix,
                                  arg |-> call[p].arg, has |-> has, val |-> val,
                                  err |-> err, ndel |-> ndel,
                                  removed |-> Cardinality(dels \cap DOMAIN store),
                                  stale |-> Cardinality(dels \ DOMAIN store)]]
    /\ held' = DeferredClose(p)
    /\ pc' = [pc EXCEPT ![p] = "idle"]
    /\ call' = [call EXCEPT ![p] = NoCall]
    /\ iter' = [iter EXCEPT ![p] = 0]
    /\ keys' = [keys EXCEPT ![p] = <<>>]
    /\ UNCHANGED <<borrows, inputs, app>>

Return(p, has, val, err) == ReturnDel(p, has, val, err, 0, {})

\* key := fmt.Sprintf("%s:%s", c.Prefix, str) of the call in progress.
CallKey(p) == WireKey(call[p].prefix, call[p].arg)

\* conn.Do on a connection of an exhausted pool: nothing is sent and the
\* operation returns the error.
Exhausted(p) ==
    /\ Return(p, FALSE, Nil, "pool")
    /\ UNCHANGED <<store, lastSet, since, sent>>

\* Variant: every command is sent a second time.
SendsTwice(p, cmd) == sent' = [sent EXCEPT ![p] = Append(Append(@, cmd), cmd)]

\* conn.Do(cmd, ...): the call of caller p sends a command; the log keeps
\* the command's name.
Sends(p, cmd) == sent' = [sent EXCEPT ![p] = Append(@, cmd)]

\* What can happen to a command that writes: the store executes it and the
\* reply arrives; the command never reaches the store; the store executes it
\* and the connection fails before the reply arrives.
Replies == {"reply", "lost", "noreply"}

(***************************************************************************)
(* Has                                                                     *)
(***************************************************************************)
\* Variant: EXISTS is asked about the logical key, without the prefix.
HasResultNoPrefix(prefix, str) == Exists(str)

\* What Has(str) of the cache with this prefix returns when the store answers.
HasResult(prefix, str) == Exists(WireKey(prefix, str))

Has(p, prefix, str) == Borrow(p, "Has", prefix, str, Nil, <<>>)

\* exists, err := redis.Bool(conn.Do("EXISTS", key))
HasDo(p) ==
    /\ pc[p] = "Has"
    /\ IF call[p].conn = "exhausted" THEN Exhausted(p)
       ELSE /\ \E ok \in BOOLEAN :
                  IF ok THEN Return(p, HasResult(call[p].prefix, call[p].arg), Nil, "nil")
                  ELSE Return(p, FALSE, Nil, "transport")
            /\ Sends(p, "EXISTS")
            /\ UNCHANGED <<store, lastSet, since>>

(***************************************************************************)
(* Get                                                                     *)
(***************************************************************************)
\* value, ok := decoded[f]
Lookup(item, f) ==
    IF \E i \in 1..Len(item) : item[i][1] = f
    THEN [ok |-> TRUE, v |-> item[CHOOSE i \in 1..Len(item) : item[i][1] = f][2]]
    ELSE [ok |-> FALSE, v |-> Nil]

\* Variant: the looked-up field is returned without testing that it is
\* there, as the earlier Get did with item := decoded[key].
GetResultUnchecked(prefix, str) ==
    LET key == WireKey(prefix, str)
    IN IF ~Exists(key) THEN [val |-> Nil, err |-> "nil"]
       ELSE LET decoded == decode(store[key].data)
            IN IF decoded.err # "nil" THEN [val |-> Nil, err |-> "decode"]
               ELSE [val |-> Lookup(decoded.item, "value").v, err |-> "nil"]

\* Variant: the nil reply of GET is not told apart from a failure.
GetResultMissIsError(prefix, str) ==
    LET key == WireKey(prefix, str)
    IN IF ~Exists(key) THEN [val |-> Nil, err |-> "errnil"]
       ELSE LET decoded == decode(store[key].data)
            IN IF decoded.err # "nil" THEN [val |-> Nil, err |-> "decode"]
               ELSE LET value == Lookup(decoded.item, "value")
                    IN IF ~value.ok THEN [val |-> Nil, err |-> "missing_value"]
                       ELSE [val |-> value.v, err |-> "nil"]

\* What Get(str) of the cache with this prefix returns when the store answers:
\* the lines of Get after the GET command.
GetResult(prefix, str) ==
    LET key == WireKey(prefix, str)
    IN IF ~Exists(key) THEN [val |-> Nil, err |-> "nil"]
       ELSE LET decoded == decode(store[key].data)
            IN IF decoded.err # "nil" THEN [val |-> Nil, err |-> "decode"]
               ELSE LET value == Lookup(decoded.item, "value")
                    IN IF ~value.ok THEN [val |-> Nil, err |-> "missing_value"]
                       ELSE [val |-> value.v, err |-> "nil"]

Get(p, prefix, str) == Borrow(p, "Get", prefix, str, Nil, <<>>)

\* data, err := redis.Bytes(conn.Do("GET", key)) and the rest of Get.
GetDo(p) ==
    /\ pc[p] = "Get"
    /\ IF call[p].conn = "exhausted" THEN Exhausted(p)
       ELSE /\ \E ok \in BOOLEAN :
                  IF ok THEN LET r == GetResult(call[p].prefix, call[p].arg)
                             IN Return(p, FALSE, r.val, r.err)
                  ELSE Return(p, FALSE, Nil, "transport")
            /\ Sends(p, "GET")
            /\ UNCHANGED <<store, lastSet, since>>

(***************************************************************************)
(* Set                                                                     *)
(***************************************************************************)
Set(p, prefix, str, value, expires) == Borrow(p, "Set", prefix, str, value, expires)

\* Variant: the value is stored under a field other than "value", as the
\* earlier codec did with entry[key] = value.
SetEncodedUnderKey(value) == encode([key |-> value])

\* entry := Entry{"value": value}; encoded, err := encode(entry)
SetEncoded(value) == encode([value |-> value])

\* Variant: the value is written without its expiry, which would be left to
\* a separate command.
SetCommandPlain(key, expires, data) == [ok |-> TRUE, store |-> StoreSET(key, data)]

\* Variant: the expiry is looked at; one that is not positive counts as none.
SetCommandByValue(key, expires, data) ==
    IF Len(expires) > 0 /\ expires[1] > 0
    THEN [ok |-> TRUE, store |-> StoreSETEX(key, expires[1], data)]
    ELSE [ok |-> TRUE, store |-> StoreSET(key, data)]

\* The store after the command Set sends, and whether the store accepted it:
\* SETEX with expires[0] when an expiry was passed, SET otherwise.  The store
\* rejects SETEX with a non-positive expiry.
SetCommand(key, expires, data) ==
    IF Len(expires) > 0
    THEN IF expires[1] > 0
         THEN [ok |-> TRUE, store |-> StoreSETEX(key, expires[1], data)]
         ELSE [ok |-> FALSE, store |-> store]
    ELSE [ok |-> TRUE, store |-> StoreSET(key, data)]

\* The record sn of the Sets once the store is st: the Sets on the keys of a
\* namespace that is empty in st are marked.
Emptied(sn, st) ==
    [k \in DOMAIN sn |->
        IF \E pf \in Prefixes :
              InNamespace(pf, k) /\ ~\E j \in DOMAIN st : InNamespace(pf, j)
        THEN [sn[k] EXCEPT !.emptied = TRUE] ELSE sn[k]]

\* What the key held when a Set was applied to it.
Prior(key) ==
    IF ~Exists(key) THEN "none" ELSE IF store[key].exp = 0 THEN "plain" ELSE "ttl"

\* The record kept of a Set the store executed on key.
Executed(key, expires, returnedNil) ==
    IF inputs.history
    THEN With(since, key, [ttl |-> IF Len(expires) > 0 THEN expires[1] ELSE 0,
                           age |-> 0, had |-> Prior(key), ok |-> returnedNil,
                           during |-> \E q \in Callers :
                                         pc[q] = "del" /\ key \in Range(keys[q]),
                           emptied |-> FALSE])
    ELSE since

\* The name of the command Set sends.
SetCommandName(expires) == IF Len(expires) > 0 THEN "SETEX" ELSE "SET"

SetDo(p) ==
    /\ pc[p] = "Set"
    /\ LET key == CallKey(p)
           encoded == SetEncoded(call[p].value)
       IN IF encoded.err # "nil"
          THEN /\ Return(p, FALSE, Nil, "encode")
               /\ UNCHANGED <<store, lastSet, since, sent>>
          ELSE IF call[p].conn = "exhausted" THEN Exhausted(p)
          ELSE /\ Sends(p, SetCommandName(call[p].expires))
               /\ \E reply \in inputs.replies :
                    LET cmd == SetCommand(key, call[p].expires, encoded.b)
                    IN CASE reply = "reply" /\ cmd.ok ->
                              /\ store' = cmd.store
                              /\ lastSet' = IF Len(call[p].expires) > 0
                                            THEN Without(lastSet, {key})
                                            ELSE With(lastSet, key, call[p].value)
                              /\ since' = Executed(key, call[p].expires, TRUE)
                              /\ Return(p, FALSE, Nil, "nil")
                         [] reply = "reply" /\ ~cmd.ok ->
                              /\ Return(p, FALSE, Nil, "store")
                              /\ UNCHANGED <<store, lastSet, since>>
                         [] reply = "lost" ->
                              /\ Return(p, FALSE, Nil, "transport")
                              /\ UNCHANGED <<store, lastSet, since>>
                         [] OTHER ->
                              /\ store' = cmd.store
                              /\ lastSet' = IF cmd.ok THEN Without(lastSet, {key}) ELSE lastSet
                              /\ since' = IF cmd.ok
                                          THEN Executed(key, call[p].expires, FALSE)
                                          ELSE since
                              /\ Return(p, FALSE, Nil, "transport")

(***************************************************************************)
(* Forget                                                                  *)
(***************************************************************************)
Forget(p, prefix, str) == Borrow(p, "Forget", prefix, str, Nil, <<>>)

\* _, err := conn.Do("DEL", key)
\* Variant: a DEL that removed nothing is reported as an error.
ForgetErrCounted(reply, removed) ==
    IF reply # "reply" THEN "transport" ELSE IF removed = 0 THEN "not_found" ELSE "nil"

\* _, err := conn.Do("DEL", key); if err != nil {...}; return nil: the error
\* Forget returns.  The number of keys the DEL removed is discarded.
ForgetErr(reply, removed) == IF reply = "reply" THEN "nil" ELSE "transport"

ForgetDo(p) ==
    /\ pc[p] = "Forget"
    /\ call[p].conn = "exhausted" => Exhausted(p)
    /\ call[p].conn = "ok" => Sends(p, "DEL")
    /\ call[p].conn = "ok" => \E reply \in inputs.replies :
          IF reply = "lost"
          THEN /\ Return(p, FALSE, Nil, "transport")
               /\ UNCHANGED <<store, lastSet, since>>
          ELSE /\ store' = StoreDEL({CallKey(p)})
               /\ lastSet' = Without(lastSet, {CallKey(p)})
               /\ since' = Emptied(Without(since, {CallKey(p)}), store')
               /\ Return(p, FALSE, Nil,
                         ForgetErr(reply, IF Exists(CallKey(p)) THEN 1 ELSE 0))

(***************************************************************************)
(* The environment of the cache                                            *)
(***************************************************************************)
\* Payloads other writers of the shared store leave under a wire key: bytes
\* that are no gob stream, a gob stream cut short, and the entry of the
\* earlier codec, which stored the value under the wire key instead of "value".
Junk == <<"junk">>
Truncated == <<"map", "1", "value", "string">>
Legacy == encode([key |-> Hello]).b
ForeignData == {Junk, Truncated, Legacy}

\* Another writer of the store puts data under a wire key.
OtherWriter(key, data) ==
    /\ store' = StoreSET(key, data)
    /\ lastSet' = Without(lastSet, {key})
    /\ since' = Without(since, {key})
    /\ UNCHANGED <<pc, call, held, borrows, iter, keys, ret, inputs, sent, app>>

\* The deadline or cancellation signal of the caller of p's call in progress
\* fires.  The operations take no context and test nothing: the call goes on.
Cancel(p) ==
    /\ pc[p] # "idle"
    /\ call[p].cancelAt = -1
    /\ call' = [call EXCEPT ![p].cancelAt = Len(sent[p])]
    /\ UNCHANGED <<store, pc, held, borrows, iter, keys, ret, lastSet, inputs, sent, since,
                   app>>

\* One second passes in the store: keys whose expiry is reached disappear.
Tick ==
    /\ \/ \E k \in DOMAIN store : store[k].exp > 0
       \/ \E k \in DOMAIN since : since[k].age < MaxAge
    /\ store' = [k \in {j \in DOMAIN store : store[j].exp # 1} |->
                    [store[k] EXCEPT !.exp = IF @ > 0 THEN @ - 1 ELSE 0]]
    /\ since' = Emptied([k \in DOMAIN since |->
                            [since[k] EXCEPT !.age = IF @ < MaxAge THEN @ + 1 ELSE @]],
                        store')
    /\ UNCHANGED <<pc, call, held, borrows, iter, keys, ret, lastSet, inputs, sent, app>>

(***************************************************************************)
(* The Cursor Scanner: getKeys                                             *)
(***************************************************************************)
\* Variant: the wildcard is appended without the separator rule.
MatchPatternStar(pattern) == pattern \o <<"*">>

\* The MATCH argument getKeys builds from its pattern argument.
MatchPattern(pattern) ==
    IF ~HasSuffixColon(pattern) THEN pattern \o <<":", "*">> ELSE pattern \o <<"*">>

\* Variant: Empty passes the prefix with the wildcard already appended.
GetKeysArgWild(op, prefix, pattern) ==
    IF op = "EmptyByMatch" THEN prefix \o <<":">> \o pattern ELSE prefix \o <<":", "*">>

\* The pattern argument the bulk operation in progress passes to getKeys:
\* fmt.Sprintf("%s:%s", c.Prefix, pattern) in EmptyByMatch,
\* fmt.Sprintf("%s:", c.Prefix) in Empty.
GetKeysArg(op, prefix, pattern) ==
    IF op = "EmptyByMatch" THEN prefix \o <<":">> \o pattern ELSE prefix \o <<":">>

\* The MATCH argument of every SCAN of the bulk operation (op, prefix, pattern).
ScanPattern(op, prefix, pattern) == MatchPattern(GetKeysArg(op, prefix, pattern))

\* The store walks its keyspace in NSlots steps; a key sits in one slot.
Slot(key) == Len(key) % NSlots

RECURSIVE SetToSeq(_)
SetToSeq(S) ==
    IF S = {} THEN <<>>
    ELSE LET x == CHOOSE y \in S : TRUE IN <<x>> \o SetToSeq(S \ {x})

\* Elements of a reply array.
ElemInt(n) == [t |-> "int", n |-> n, ks |-> <<>>]
ElemList(ks) == [t |-> "list", n |-> 0, ks |-> ks]
ElemOther == [t |-> "status", n |-> 0, ks |-> <<>>]

\* SCAN cursor MATCH pat COUNT 1000: the next cursor (0 when the walk is
\* complete) and the keys of the slot that match.
ScanReply(cursor, pat) ==
    <<ElemInt((cursor + 1) % NSlots),
      ElemList(SetToSeq({k \in DOMAIN store : Slot(k) = cursor /\ Glob(pat, k)}))>>

\* The reply with its first key returned twice, as SCAN may do.
Repeated(reply) ==
    IF reply[2].ks = <<>> THEN reply
    ELSE <<reply[1], ElemList(<<reply[2].ks[1]>> \o reply[2].ks)>>

\* What conn.Do("SCAN", ...) can come back with: the store's reply, the
\* reply with a key repeated, a reply of another shape, or a transport error.
ScanOutcomes(cursor, pat) ==
    LET good == ScanReply(cursor, pat)
    IN {[err |-> FALSE, arr |-> good],
        [err |-> FALSE, arr |-> Repeated(good)],
        [err |-> TRUE, arr |-> <<>>],
        [err |-> FALSE, arr |-> <<>>],
        [err |-> FALSE, arr |-> <<good[1]>>],
        [err |-> FALSE, arr |-> <<ElemOther, good[2]>>],
        [err |-> FALSE, arr |-> <<good[1], ElemOther>>]}

\* Variant: the loop tests the cursor before it appends the batch, so the
\* batch of the last step is lost.
LoopBodyBreakFirst(out, it, ks) ==
    IF out.err THEN [end |-> "scan", iter |-> it, keys |-> ks]
    ELSE IF Len(out.arr) < 1 THEN [end |-> "panic", iter |-> it, keys |-> ks]
    ELSE IF out.arr[1].t # "int" THEN [end |-> "parse_iter", iter |-> 0, keys |-> ks]
    ELSE IF Len(out.arr) < 2 THEN [end |-> "panic", iter |-> out.arr[1].n, keys |-> ks]
    ELSE IF out.arr[2].t # "list"
         THEN [end |-> "parse_keys", iter |-> out.arr[1].n, keys |-> ks]
    ELSE IF out.arr[1].n = 0 THEN [end |-> "break", iter |-> 0, keys |-> ks]
    ELSE [end |-> "continue", iter |-> out.arr[1].n, keys |-> ks \o out.arr[2].ks]

\* Variant: a SCAN that fails ends the loop as if the walk were complete.
LoopBodyBreakOnError(out, it, ks) ==
    IF out.err THEN [end |-> "break", iter |-> it, keys |-> ks]
    ELSE IF Len(out.arr) < 1 THEN [end |-> "panic", iter |-> it, keys |-> ks]
    ELSE IF out.arr[1].t # "int" THEN [end |-> "break", iter |-> 0, keys |-> ks]
    ELSE IF Len(out.arr) < 2 THEN [end |-> "panic", iter |-> out.arr[1].n, keys |-> ks]
    ELSE IF out.arr[2].t # "list"
         THEN [end |-> "break", iter |-> out.arr[1].n, keys |-> ks]
    ELSE [end |-> IF out.arr[1].n = 0 THEN "break" ELSE "continue",
          iter |-> out.arr[1].n, keys |-> ks \o out.arr[2].ks]

\* Variant: the batch replaces the keys accumulated so far.
LoopBodyKeepLast(out, it, ks) ==
    IF out.err THEN [end |-> "scan", iter |-> it, keys |-> ks]
    ELSE IF Len(out.arr) < 1 THEN [end |-> "panic", iter |-> it, keys |-> ks]
    ELSE IF out.arr[1].t # "int" THEN [end |-> "parse_iter", iter |-> 0, keys |-> ks]
    ELSE IF Len(out.arr) < 2 THEN [end |-> "panic", iter |-> out.arr[1].n, keys |-> ks]
    ELSE IF out.arr[2].t # "list"
         THEN [end |-> "parse_keys", iter |-> out.arr[1].n, keys |-> ks]
    ELSE [end |-> IF out.arr[1].n = 0 THEN "break" ELSE "continue",
          iter |-> out.arr[1].n, keys |-> out.arr[2].ks]

\* One pass of the loop body of getKeys on the outcome of its SCAN:
\* how the pass ends, and iter and keys after it.
LoopBody(out, it, ks) ==
    IF out.err THEN [end |-> "scan", iter |-> it, keys |-> ks]
    ELSE IF Len(out.arr) < 1 THEN [end |-> "panic", iter |-> it, keys |-> ks]
    ELSE IF out.arr[1].t # "int" THEN [end |-> "parse_iter", iter |-> 0, keys |-> ks]
    ELSE IF Len(out.arr) < 2 THEN [end |-> "panic", iter |-> out.arr[1].n, keys |-> ks]
    ELSE IF out.arr[2].t # "list"
         THEN [end |-> "parse_keys", iter |-> out.arr[1].n, keys |-> ks]
    ELSE [end |-> IF out.arr[1].n = 0 THEN "break" ELSE "continue",
          iter |-> out.arr[1].n, keys |-> ks \o out.arr[2].ks]

(***************************************************************************)
(* EmptyByMatch and Empty                                                  *)
(***************************************************************************)
EmptyByMatch(p, prefix, pattern) == Borrow(p, "EmptyByMatch", prefix, pattern, Nil, <<>>)

Empty(p, prefix) == Borrow(p, "Empty", prefix, <<>>, Nil, <<>>)

\* keys, err := c.getKeys(...): getKeys is entered, borrows its own
\* connection while the caller's is still open, and builds matchPattern.
getKeys(p) ==
    /\ pc[p] \in {"EmptyByMatch", "Empty"}
    /\ pc' = [pc EXCEPT ![p] = "scan"]
    /\ held' = [held EXCEPT ![p] = IF PoolGet = "ok" THEN @ + 1 ELSE @]
    /\ call' = [call EXCEPT ![p].scanConn = PoolGet,
                             ![p].match = ScanPattern(call[p].op, call[p].prefix,
                                                      call[p].arg)]
    /\ borrows' = [borrows EXCEPT ![p] = @ + 1]
    /\ iter' = [iter EXCEPT ![p] = 0]
    /\ keys' = [keys EXCEPT ![p] = <<>>]
    /\ UNCHANGED <<store, ret, lastSet, inputs, sent, since, app>>

\* Variant: the DEL is sent whatever the number of keys.
AfterGetKeysAlwaysDel(ks) == "del"

\* if len(keys) == 0 { return nil }: what the bulk operation does with the
\* keys getKeys returned.
AfterGetKeys(ks) == IF Len(ks) = 0 THEN "return" ELSE "del"

\* One SCAN of getKeys' loop.  When the loop ends, getKeys returns (its
\* deferred Close runs) and the bulk operation goes on: it returns the error,
\* returns nil when no key was found, or moves on to the batched DEL.
Scan(p) ==
    /\ pc[p] = "scan"
    /\ call[p].scanConn = "exhausted" => Exhausted(p)
    /\ call[p].scanConn = "ok" => Sends(p, "SCAN")
    /\ call[p].scanConn = "ok" => \E out \in ScanOutcomes(iter[p], call[p].match) :
          LET r == LoopBody(out, iter[p], keys[p])
          IN CASE r.end = "continue" ->
                    /\ iter' = [iter EXCEPT ![p] = r.iter]
                    /\ keys' = [keys EXCEPT ![p] = r.keys]
                    /\ UNCHANGED <<pc, call, held, borrows, ret, inputs, app>>
               [] r.end = "break" /\ AfterGetKeys(r.keys) = "del" ->
                    /\ iter' = [iter EXCEPT ![p] = r.iter]
                    /\ keys' = [keys EXCEPT ![p] = r.keys]
                    /\ held' = [held EXCEPT ![p] = @ - 1]
                    /\ pc' = [pc EXCEPT ![p] = "del"]
                    /\ UNCHANGED <<call, borrows, ret, inputs, app>>
               [] r.end = "break" /\ AfterGetKeys(r.keys) = "return" ->
                    Return(p, FALSE, Nil, "nil")
               [] OTHER -> Return(p, FALSE, Nil, r.end)
    /\ call[p].scanConn = "ok" => UNCHANGED <<store, lastSet, since>>

\* Variant: only the first key found is handed to DEL.
DelArgsFirst(ks) == IF Len(ks) > 0 THEN <<ks[1]>> ELSE <<>>

\* args := make([]interface{}, len(keys)); args[i] = key: the arguments of
\* the DEL, one per key getKeys returned.
DelArgs(ks) == [i \in 1..Len(ks) |-> ks[i]]

\* _, err = conn.Do("DEL", args...) with every key getKeys returned.
Del(p) ==
    /\ pc[p] = "del"
    /\ call[p].conn = "exhausted" => Exhausted(p)
    /\ call[p].conn = "ok" => Sends(p, "DEL")
    /\ call[p].conn = "ok" => \E reply \in inputs.replies :
          IF reply = "lost"
          THEN /\ Return(p, FALSE, Nil, "transport")
               /\ UNCHANGED <<store, lastSet, since>>
          ELSE /\ store' = StoreDEL(Range(DelArgs(keys[p])))
               /\ lastSet' = Without(lastSet, Range(DelArgs(keys[p])))
               /\ since' = Emptied(Without(since, Range(DelArgs(keys[p]))), store')
               /\ IF reply = "reply"
                  THEN ReturnDel(p, FALSE, Nil, "nil", Len(keys[p]), Range(DelArgs(keys[p])))
                  ELSE Return(p, FALSE, Nil, "transport")

\* The keys getKeys returns when every SCAN succeeds and the store does not
\* change during the loop: the loop run from cursor it with keys ks.
RECURSIVE RunGetKeys(_, _, _)
RunGetKeys(pat, it, ks) ==
    LET r == LoopBody([err |-> FALSE, arr |-> ScanReply(it, pat)], it, ks)
    IN IF r.end = "continue" THEN RunGetKeys(pat, r.iter, r.keys) ELSE r.keys

\* The wire keys such a run of the bulk operation (op, prefix, pattern)
\* hands to DEL.
BulkDeletes(op, prefix, pattern) ==
    Range(RunGetKeys(ScanPattern(op, prefix, pattern), 0, <<>>))

(***************************************************************************)
(* Application start-up: New                                               *)
(***************************************************************************)
\* strings.ToLower of the CACHE setting.
ToLower(str) == IF str \in {"redis", "REDIS"} THEN "redis" ELSE str

\* createClientRedisCache: a RedisCache whose Prefix is the prefix the
\* configuration holds when the function is called.
createClientRedisCache(config) == [installed |-> TRUE, Prefix |-> config.redis.prefix]

\* The Cache that New installs: if CACHE is "redis", the result of
\* createClientRedisCache, called with the configuration as it is at that
\* point of New.
NewCache(a) ==
    IF ToLower(a.CACHE) = "redis" THEN createClientRedisCache(a.config) ELSE a.Cache

\* New(rootPath): the environment has been loaded; the Cache is installed,
\* and after it the configuration is filled from the environment.
New ==
    /\ app.pc = "start"
    /\ app' = [app EXCEPT !.Cache = NewCache(app),
                          !.config = [redis |-> [prefix |-> app.REDIS_PREFIX]],
                          !.pc = "done"]
    /\ UNCHANGED <<store, pc, call, held, borrows, iter, keys, ret, lastSet, inputs, sent,
                   since>>

(***************************************************************************)
(* Specifications                                                          *)
(***************************************************************************)
\* A caller calls an operation of a cache whose prefix is in pfs.
CallerStarts(pfs) ==
    \/ \E p \in inputs.callers, pf \in pfs, k \in inputs.keys : Has(p, pf, k)
    \/ \E p \in inputs.callers, pf \in pfs, k \in inputs.keys : Get(p, pf, k)
    \/ \E p \in inputs.callers, pf \in pfs, k \in inputs.keys,
          v \in inputs.values, ex \in inputs.expires : Set(p, pf, k, v, ex)
    \/ \E p \in inputs.callers, pf \in pfs, k \in inputs.keys : Forget(p, pf, k)
    \/ \E p \in inputs.callers, pf \in pfs, pat \in inputs.patterns :
          EmptyByMatch(p, pf, pat)
    \/ \E p \in inputs.callers, pf \in pfs : Empty(p, pf)

\* A call in progress takes its next step.
CallerDos ==
    \/ \E p \in inputs.callers : HasDo(p)
    \/ \E p \in inputs.callers : GetDo(p)
    \/ \E p \in inputs.callers : SetDo(p)
    \/ \E p \in inputs.callers : ForgetDo(p)
    \/ \E p \in inputs.callers : getKeys(p)
    \/ \E p \in inputs.callers : Scan(p)
    \/ \E p \in inputs.callers : Del(p)

\* The steps of the callers.
CallerStep ==
    \/ CallerStarts(inputs.prefixes)
    \/ CallerDos

\* One cache, every kind of value, expiry and stored payload.
Init ==
    /\ InitState
    /\ app = NoApp
    /\ inputs = [callers |-> {"c1"}, prefixes |-> {<<"p">>},
                 keys |-> {<<"o">>, <<"u", ":", "1">>},
                 patterns |-> {<<>>, <<"u">>},
                 values |-> Values, expires |-> ExpireArgs, replies |-> Replies,
                 history |-> FALSE,
                 maxActive |-> MaxActive]

Next ==
    \/ CallerStep
    \/ \E pf \in inputs.prefixes, k \in inputs.keys, d \in ForeignData :
          OtherWriter(WireKey(pf, k), d)
    \/ Tick
    \/ \E p \in inputs.callers : Cancel(p)

Spec == Init /\ [][Next]_vars

\* Several caches on one store, every key and pattern, one value; a command
\* that fails is one that never reached the store.
InitNS ==
    /\ InitState
    /\ app = NoApp
    /\ inputs = [callers |-> {"c1"}, prefixes |-> Prefixes, keys |-> LogicalKeys,
                 patterns |-> Patterns, values |-> {Hello}, expires |-> {<<>>},
                 replies |-> {"reply", "lost"}, history |-> FALSE,
                 maxActive |-> MaxActive]

NextNS == CallerStep

SpecNS == InitNS /\ [][NextNS]_vars

\* Two callers of one cache on one key, with and without expiry, while time
\* passes; the history of the Sets is recorded.
InitTTL ==
    /\ InitState
    /\ app = NoApp
    /\ inputs = [callers |-> {"c1", "c2"}, prefixes |-> {<<"p">>}, keys |-> {<<"o">>},
                 patterns |-> {<<>>}, values |-> {Hello, FortyTwo},
                 expires |-> {<<>>, <<2>>}, replies |-> Replies, history |-> TRUE,
                 maxActive |-> MaxActive]

NextTTL ==
    \/ CallerStep
    \/ Tick

SpecTTL == InitTTL /\ [][NextTTL]_vars

\* N callers of one cache whose pool bounds the outstanding connections to
\* N: one caller and one connection, or two callers and two connections.
InitPool ==
    /\ InitState
    /\ app = NoApp
    /\ \E n \in {1, 2} :
          inputs = [callers |-> IF n = 1 THEN {"c1"} ELSE {"c1", "c2"},
                    prefixes |-> {<<"p">>}, keys |-> {<<"o">>}, patterns |-> {<<>>},
                    values |-> {Hello}, expires |-> {<<>>}, replies |-> {"reply"},
                    history |-> FALSE, maxActive |-> n]

NextPool == CallerStep

SpecPool == InitPool /\ [][NextPool]_vars

\* An application that starts with its environment set, and whose handlers
\* then use the Cache that New installed.
InitApp ==
    /\ InitState
    /\ \E c \in {"redis", "REDIS", "none"}, pf \in Prefixes :
          app = [NoApp EXCEPT !.pc = "start", !.CACHE = c, !.REDIS_PREFIX = pf]
    /\ inputs = [callers |-> {"c1"}, prefixes |-> {}, keys |-> {<<"o">>, <<"u", ":", "1">>},
                 patterns |-> {<<>>, <<"u">>}, values |-> {Hello}, expires |-> {<<>>},
                 replies |-> {"reply", "lost"}, history |-> FALSE,
                 maxActive |-> MaxActive]

NextApp ==
    \/ New
    \/ /\ app.pc = "done"
       /\ app.Cache.installed
       /\ CallerStarts({app.Cache.Prefix})
    \/ CallerDos

SpecApp == InitApp /\ [][NextApp]_vars

(***************************************************************************)
(* Properties                                                              *)
(***************************************************************************)
\* The step by which caller p's call of op returns.
Returns(p, op) == call[p].op = op /\ pc[p] # "idle" /\ pc'[p] = "idle"

\* C1: round trip.  When Get(k) returns on a key whose last change was a
\* successful Set(k, v) without TTL, and the store answered the GET, it
\* returns (v, nil).
C1_RoundTrip ==
    [][\A p \in Callers :
          (Returns(p, "Get") /\ CallKey(p) \in DOMAIN lastSet /\ ret'[p].err # "transport")
          => (ret'[p].val = lastSet[CallKey(p)] /\ ret'[p].err = "nil")]_vars

\* A Get has returned the int that the preceding Set without TTL stored.
C1_Witness ==
    \E p \in Callers :
        /\ ret[p].op = "Get" /\ ret[p].err = "nil" /\ ret[p].val = FortyTwo
        /\ WireKey(ret[p].prefix, ret[p].arg) \in DOMAIN lastSet
        /\ lastSet[WireKey(ret[p].prefix, ret[p].arg)] = FortyTwo

\* C2: every operation borrows exactly one connection per call: a call never
\* holds more than one borrowed connection and makes one borrow in total.
C2_OneConnectionPerCall ==
    \A p \in Callers :
        /\ held[p] <= 1
        /\ pc[p] # "idle" => borrows[p] = 1
        /\ ret[p].op # "none" => borrows[p] = 1

\* C3: no connection leak.  Whenever a caller is not inside a call it holds
\* no borrowed connection, whatever way its calls returned; and once getKeys
\* has returned to the bulk operation, only the operation's own connection
\* is still borrowed.
C3_NoLeak ==
    \A p \in Callers :
        /\ pc[p] = "idle" => held[p] = 0
        /\ pc[p] = "del" => held[p] = 1

\* A bulk delete whose batched DEL failed has returned, after two borrows,
\* with nothing left borrowed.
C3_Witness ==
    \E p \in Callers :
        /\ pc[p] = "idle" /\ ret[p].op \in {"Empty", "EmptyByMatch"}
        /\ ret[p].err = "transport" /\ borrows[p] = 2 /\ held[p] = 0

\* C4: namespace safety of bulk deletes.  The batched DEL that Empty or
\* EmptyByMatch is about to send on a cache with prefix P names only wire
\* keys that start with P followed by ':'.
C4_DelInsideNamespace ==
    \A p \in Callers :
        pc[p] = "del" => \A k \in Range(keys[p]) : InNamespace(call[p].prefix, k)

\* C5: a step of Empty() on the cache with prefix P that changes the store
\* changes the result of Has and Get for no key of a cache with another
\* prefix Q.
C5_EmptyLeavesOtherPrefixes ==
    [][\A p \in Callers :
          (call[p].op = "Empty" /\ store' # store)
          => \A q \in Prefixes \ {call[p].prefix}, k \in LogicalKeys :
                /\ HasResult(q, k)' = HasResult(q, k)
                /\ GetResult(q, k)' = GetResult(q, k)]_vars

\* C6: Empty() clears the namespace.  When Empty() returns nil, Has is false
\* for every logical key of the cache.
C6_EmptyClears ==
    [][\A p \in Callers, pf \in Prefixes :
          (Returns(p, "Empty") /\ call[p].prefix = pf /\ ret'[p].err = "nil")
          => \A k \in LogicalKeys : ~HasResult(pf, k)']_vars

\* The glob EmptyByMatch(pattern) of the cache with this prefix deletes by:
\* prefix:pattern:*, or prefix:pattern* when pattern is empty or ends in ':'.
DeleteGlob(prefix, pattern) ==
    prefix \o <<":">> \o pattern
           \o (IF pattern = <<>> \/ pattern[Len(pattern)] = ":" THEN <<"*">> ELSE <<":", "*">>)

\* C7 as stated: when EmptyByMatch(pattern) returns nil, every key of the
\* namespace whose logical key matches the glob pattern is absent.
C7_RemovesKeysMatchingPattern ==
    [][\A p \in Callers, pf \in Prefixes, pat \in Patterns :
          (Returns(p, "EmptyByMatch") /\ call[p].prefix = pf /\ call[p].arg = pat
             /\ ret'[p].err = "nil")
          => \A k \in LogicalKeys : Glob(pat, k) => ~HasResult(pf, k)']_vars

\* C7 amended: with no concurrent writer, when EmptyByMatch(pattern) returns
\* nil, every wire key that matches the glob prefix:pattern:* (prefix:pattern*
\* when pattern is empty or ends in ':') is absent.
C7_RemovesKeysMatchingDeleteGlob ==
    [][\A p \in Callers :
          (Returns(p, "EmptyByMatch") /\ ret'[p].err = "nil")
          => \A w \in WireKeys :
                Glob(DeleteGlob(call[p].prefix, call[p].arg), w) => ~Exists(w)']_vars

\* EmptyByMatch("u*") on the cache "p" has returned nil after a DEL, and the
\* key set as "u1" is still there.
C7_Witness ==
    \E p \in Callers :
        /\ ret[p].op = "EmptyByMatch" /\ ret[p].err = "nil" /\ ret[p].ndel >= 1
        /\ ret[p].prefix = <<"p">> /\ ret[p].arg = <<"u", "*">>
        /\ HasResult(<<"p">>, <<"u", "1">>)
        /\ ~HasResult(<<"p">>, <<"u", ":", "1">>)

\* C8 as stated: a step of EmptyByMatch(pattern) that changes the store
\* changes the result of Has and Get for no key of the namespace whose
\* logical key does not match the glob pattern.
C8_KeepsKeysNotMatchingPattern ==
    [][\A p \in Callers, pf \in Prefixes :
          (call[p].op = "EmptyByMatch" /\ call[p].prefix = pf /\ store' # store)
          => \A k \in LogicalKeys :
                ~Glob(call[p].arg, k) => /\ HasResult(pf, k)' = HasResult(pf, k)
                                         /\ GetResult(pf, k)' = GetResult(pf, k)]_vars

\* C8 amended: a step of EmptyByMatch(pattern) that changes the store changes
\* the result of Has and Get for no key, of any cache, whose wire key does not
\* match the glob prefix:pattern:* (prefix:pattern* when pattern is empty or
\* ends in ':').
C8_KeepsKeysNotMatchingDeleteGlob ==
    [][\A p \in Callers :
          (call[p].op = "EmptyByMatch" /\ store' # store)
          => \A q \in Prefixes, k \in LogicalKeys :
                ~Glob(DeleteGlob(call[p].prefix, call[p].arg), WireKey(q, k))
                => /\ HasResult(q, k)' = HasResult(q, k)
                   /\ GetResult(q, k)' = GetResult(q, k)]_vars

\* EmptyByMatch("u") on the cache "p" has returned nil after a DEL, and the
\* key "o" is still there.
C8_Witness ==
    \E p \in Callers :
        /\ ret[p].op = "EmptyByMatch" /\ ret[p].err = "nil" /\ ret[p].ndel >= 1
        /\ ret[p].prefix = <<"p">> /\ ret[p].arg = <<"u">>
        /\ HasResult(<<"p">>, <<"o">>)

\* C9 as stated: from any store state, Empty() and EmptyByMatch("*") delete
\* the same set of wire keys.
C9_EmptyIsEmptyByMatchStar ==
    \A pf \in inputs.prefixes :
        BulkDeletes("Empty", pf, <<>>) = BulkDeletes("EmptyByMatch", pf, <<"*">>)

\* C9 amended: from any store state, Empty() and EmptyByMatch("") delete the
\* same set of wire keys, and the keys either call hands to its DEL are that
\* set.
C9_EmptyIsEmptyByMatchOfEmptyPattern ==
    \A pf \in inputs.prefixes :
        /\ BulkDeletes("Empty", pf, <<>>) = BulkDeletes("EmptyByMatch", pf, <<>>)
        /\ \A p \in Callers :
              (pc[p] = "del" /\ call[p].prefix = pf
                 /\ (call[p].op = "Empty" \/ call[p].arg = <<>>))
              => /\ Range(keys[p]) = BulkDeletes("Empty", pf, <<>>)
                 /\ Range(keys[p]) = BulkDeletes("EmptyByMatch", pf, <<>>)

\* EmptyByMatch("") is about to delete two keys.
C9_Witness ==
    \E p \in Callers :
        /\ pc[p] = "del" /\ call[p].op = "EmptyByMatch" /\ call[p].arg = <<>>
        /\ Len(keys[p]) >= 2

\* The bytes of an Entry whose "value" field holds the nil interface.
NilEntry == <<"map", "1", "value", "">>

\* C10 as stated: Get(k) returns (nil, nil) exactly when the wire key does not
\* exist, and returns an error, never (nil, nil), when the key holds bytes
\* that do not decode to an Entry with a "value" field.
C10_NilNilOnlyOnMiss ==
    [][\A p \in Callers :
          (Returns(p, "Get") /\ ret'[p].err # "transport")
          => /\ (ret'[p].val = Nil /\ ret'[p].err = "nil") <=> ~Exists(CallKey(p))
             /\ (Exists(CallKey(p)) /\ store[CallKey(p)].data \in ForeignData)
                => ret'[p].err \in {"decode", "missing_value"}]_vars

\* C10 amended: Get(k) returns (nil, nil) exactly when the wire key does not
\* exist or holds an Entry whose "value" is nil (as written by Set(k, nil));
\* when the key holds bytes that do not decode to an Entry with a "value"
\* field, Get returns an error and never (nil, nil).
C10_NilNilOnMissOrNilValue ==
    [][\A p \in Callers :
          (Returns(p, "Get") /\ ret'[p].err # "transport")
          => /\ (ret'[p].val = Nil /\ ret'[p].err = "nil")
                <=> (~Exists(CallKey(p)) \/ store[CallKey(p)].data = NilEntry)
             /\ (Exists(CallKey(p)) /\ store[CallKey(p)].data \in ForeignData)
                => ret'[p].err \in {"decode", "missing_value"}]_vars

\* A Get has returned the missing-field error on a key that holds an entry
\* of the earlier codec.
C10_Witness ==
    \E p \in Callers :
        /\ ret[p].op = "Get" /\ ret[p].err = "missing_value"
        /\ Exists(WireKey(ret[p].prefix, ret[p].arg))
        /\ store[WireKey(ret[p].prefix, ret[p].arg)].data = Legacy

\* C11: atomic write-with-expiry.  A Set with ttl > 0 whose value encodes
\* sends exactly one command, SETEX; and whenever the wire key holds what
\* such a Set wrote (whatever the Set returned), the key carries an expiry of
\* at most ttl seconds.
C11_AtomicWriteWithExpiry ==
    /\ [](\A k \in DOMAIN since :
            (since[k].ttl > 0 /\ Exists(k)) => (store[k].exp > 0 /\ store[k].exp <= since[k].ttl))
    /\ [][\A p \in Callers :
            (Returns(p, "Set") /\ Len(call[p].expires) > 0 /\ call[p].expires[1] > 0
               /\ ret'[p].err # "encode")
            => sent'[p] = <<"SETEX">>]_vars

\* The key holds, one second later and with one second left, the value of a
\* Set with ttl 2 whose reply was lost, while the other caller is inside a Get.
C11_Witness ==
    \E k \in DOMAIN since :
        /\ since[k].ttl = 2 /\ since[k].age = 1 /\ ~since[k].ok
        /\ Exists(k) /\ store[k].exp = 1
        /\ \E p \in Callers : pc[p] = "Get" /\ CallKey(p) = k

\* The wire key k was last written by a Set that returned nil, with this
\* test on its expiry, and nothing has written or deleted k since.
LastSetReturnedNil(k) == k \in DOMAIN since /\ since[k].ok

\* C12: expiry is observed as a miss.  When Get(k) or Has(k) returns, the
\* store having answered, on a key whose last write was a Set with ttl >= 1
\* that returned nil more than ttl seconds ago, Get returns (nil, nil) and
\* Has returns (false, nil), whatever the key held before that Set.
C12_ExpiryIsMiss ==
    [][\A p \in Callers :
          (pc[p] \in {"Get", "Has"} /\ pc'[p] = "idle" /\ ret'[p].err # "transport"
             /\ LastSetReturnedNil(CallKey(p))
             /\ since[CallKey(p)].ttl >= 1
             /\ since[CallKey(p)].age > since[CallKey(p)].ttl)
          => (ret'[p].err = "nil" /\ ret'[p].val = Nil /\ ret'[p].has = FALSE)]_vars

\* A Get is in progress on a key that held a value without expiry, was then
\* Set with ttl 2, three seconds ago, and is gone.
C12_Witness ==
    \E p \in Callers :
        /\ pc[p] = "Get" /\ LastSetReturnedNil(CallKey(p))
        /\ since[CallKey(p)].ttl = 2 /\ since[CallKey(p)].age = 3
        /\ since[CallKey(p)].had = "plain"
        /\ ~Exists(CallKey(p))

\* C13: a Set without TTL leaves the key with no expiry.  As long as nothing
\* has written or deleted the key since a Set(k, v) without ttl returned nil,
\* however much time has passed and whether or not the key carried an expiry
\* before, the key exists, carries no expiry, and Get(k) returns (v, nil).
C13_NoTTLPersists ==
    \A pf \in Prefixes, k \in LogicalKeys :
        (LastSetReturnedNil(WireKey(pf, k)) /\ since[WireKey(pf, k)].ttl = 0)
        => /\ Exists(WireKey(pf, k))
           /\ store[WireKey(pf, k)].exp = 0
           /\ WireKey(pf, k) \in DOMAIN lastSet
           /\ GetResult(pf, k) = [val |-> lastSet[WireKey(pf, k)], err |-> "nil"]

\* A key that carried an expiry when it was Set without ttl is still there
\* after the longest time counted.
C13_Witness ==
    \E k \in DOMAIN since :
        /\ since[k].ok /\ since[k].ttl = 0 /\ since[k].had = "ttl"
        /\ since[k].age = MaxAge /\ Exists(k)

\* C14: Has tracks Set.  When Has(k) returns, the store having answered: it
\* returns (false, nil) if the store has executed no Set on k, ever or since
\* the namespace of the cache was last empty; and it returns (true, nil) if
\* the last write of k was a Set without ttl that returned nil and nothing
\* has deleted k since.
C14_HasTracksSet ==
    [][\A p \in Callers :
          (Returns(p, "Has") /\ ret'[p].err # "transport")
          => /\ ret'[p].err = "nil"
             /\ (CallKey(p) \notin DOMAIN since \/ since[CallKey(p)].emptied)
                => ~ret'[p].has
             /\ (LastSetReturnedNil(CallKey(p)) /\ since[CallKey(p)].ttl = 0)
                => ret'[p].has]_vars

\* One caller's Has has returned (true, nil) on a key just Set without ttl,
\* and the other's Has is in progress on a key whose namespace was emptied
\* after its last Set.
C14_Witness ==
    \E p, q \in Callers :
        /\ ret[p].op = "Has" /\ ret[p].has /\ ret[p].err = "nil"
        /\ pc[q] = "Has" /\ CallKey(q) \in DOMAIN since /\ since[CallKey(q)].emptied
        /\ ~Exists(CallKey(q))

\* C15: Forget is idempotent.  In any state of the key (present, never set,
\* already forgotten, expired), Forget(k) returns nil or the transport error
\* and no other error; when it returns nil, Has(k) is false right after, and
\* if the key was already absent the store is left unchanged.
C15_ForgetIdempotent ==
    [][\A p \in Callers, pf \in Prefixes, k \in LogicalKeys :
          (Returns(p, "Forget") /\ call[p].prefix = pf /\ call[p].arg = k)
          => /\ ret'[p].err \in {"nil", "transport"}
             /\ ret'[p].err = "nil"
                => /\ ~HasResult(pf, k)'
                   /\ ~HasResult(pf, k) => store' = store]_vars

\* Both callers' Forget of the same key have returned nil, the second one on
\* a key that was not there, and the key is absent.
C15_Witness ==
    \E p, q \in Callers :
        /\ p # q
        /\ ret[p].op = "Forget" /\ ret[p].err = "nil"
        /\ ret[q].op = "Forget" /\ ret[q].err = "nil" /\ ret[q].arg = ret[p].arg
        /\ ~HasResult(ret[p].prefix, ret[p].arg)

\* The commands cmds are SCANs only.
OnlyScans(cmds) == \A i \in 1..Len(cmds) : cmds[i] = "SCAN"

\* C16: scan-then-delete ordering.  When a bulk delete reaches its DEL, it
\* has sent SCANs only, a full walk of them, and the last one returned cursor
\* 0; the DEL is the one command that follows, it is sent once, and when the
\* store executes it it removes exactly the keys the scan accumulated.
C16_ScanThenSingleDel ==
    /\ [](\A p \in Callers :
            /\ pc[p] = "del"
               => (OnlyScans(sent[p]) /\ Len(sent[p]) = NSlots /\ iter[p] = 0
                     /\ Len(keys[p]) >= 1)
            /\ (ret[p].op \in {"Empty", "EmptyByMatch"} /\ ret[p].ndel >= 1)
               => (Len(sent[p]) = NSlots + 1 /\ sent[p][NSlots + 1] = "DEL"
                     /\ OnlyScans(SubSeq(sent[p], 1, NSlots))))
    /\ [][\A p \in Callers :
            (pc[p] = "del" /\ pc'[p] = "idle")
            => /\ sent'[p] = Append(sent[p], "DEL")
               /\ store' \in {store, Without(store, Range(keys[p]))}
               /\ ret'[p].err = "nil"
                  => (store' = Without(store, Range(keys[p]))
                        /\ ret'[p].ndel = Len(keys[p]))]_vars

\* Empty() has returned nil after two SCANs and one DEL that named two keys.
C16_Witness ==
    \E p \in Callers :
        /\ ret[p].op = "Empty" /\ ret[p].err = "nil" /\ ret[p].ndel = 2
        /\ sent[p] = <<"SCAN", "SCAN", "DEL">>

\* C17: when the scan of a bulk delete completes with no key found, the call
\* returns nil at once: it sends no DEL and leaves the store unchanged.  A
\* DEL is only ever sent with at least one key.
C17_NoKeysNoDel ==
    /\ [](\A p \in Callers :
            /\ pc[p] = "del" => Len(keys[p]) >= 1
            /\ (ret[p].op \in {"Empty", "EmptyByMatch"} /\ ret[p].err = "nil"
                   /\ ret[p].ndel = 0)
               => OnlyScans(sent[p]))
    /\ [][\A p \in Callers :
            (pc[p] = "scan" /\ pc'[p] = "idle" /\ ret'[p].err = "nil")
            => (store' = store /\ OnlyScans(sent'[p]) /\ Len(sent'[p]) = NSlots)]_vars

\* EmptyByMatch("u") has returned nil after its SCANs alone, on a store that
\* holds a key of the namespace the pattern does not reach.
C17_Witness ==
    \E p \in Callers :
        /\ ret[p].op = "EmptyByMatch" /\ ret[p].arg = <<"u">>
        /\ ret[p].err = "nil" /\ ret[p].ndel = 0
        /\ OnlyScans(sent[p]) /\ Len(sent[p]) = NSlots
        /\ HasResult(ret[p].prefix, <<"o">>)

\* C18: a malformed reply of the store is surfaced as an error, never a
\* panic.  No Empty or EmptyByMatch call ends in a panic; a call whose SCAN
\* got a reply of unexpected shape returns an error to its caller.
C18_MalformedReplyIsError ==
    \A p \in Callers :
        ret[p].op \in {"Empty", "EmptyByMatch"}
        => ret[p].err \in {"nil", "transport", "scan", "parse_iter", "parse_keys"}

\* C19: cancellation between scan steps.  When the caller's cancellation
\* signal fired while a bulk delete was between two SCAN steps (at least one
\* SCAN sent, the walk not complete), the call sends no command after it.
C19_CancelStopsScan ==
    \A p \in Callers :
        (call[p].op \in {"Empty", "EmptyByMatch"}
           /\ call[p].cancelAt >= 1 /\ call[p].cancelAt < NSlots)
        => Len(sent[p]) = call[p].cancelAt

\* C20: the configured prefix scopes the application's cache.  After New has
\* run with CACHE=redis and REDIS_PREFIX=p, the installed RedisCache has
\* Prefix p, and the wire key of every call on it starts with p and ':'.
C20_ConfiguredPrefixScopesCache ==
    (app.pc = "done" /\ ToLower(app.CACHE) = "redis")
    => /\ app.Cache.installed
       /\ app.Cache.Prefix = app.REDIS_PREFIX
       /\ \A p \in Callers :
             pc[p] \in {"Has", "Get", "Set", "Forget"}
             => InNamespace(app.REDIS_PREFIX, CallKey(p))

\* C21: bounded-pool progress.  With a pool bounded to as many connections
\* as there are callers, no Empty or EmptyByMatch call finds the pool
\* exhausted when the only connections out are those of bulk calls, so none
\* returns the pool's error.
C21_BulkNeverExhaustsPool ==
    \A p \in Callers :
        /\ (pc[p] \in {"scan", "del"}
               /\ \A q \in Callers : held[q] > 0 => call[q].op \in {"Empty", "EmptyByMatch"})
           => (call[p].conn = "ok" /\ call[p].scanConn = "ok")
        /\ ret[p].op \in {"Empty", "EmptyByMatch"} => ret[p].err # "pool"

\* C22: cursor scanner protocol.  getKeys starts with cursor 0 and no keys.
\* Each SCAN is sent with the cursor the previous step returned and the MATCH
\* pattern of the call; after a step the store answered well, the cursor is
\* the one returned, the keys are the keys so far followed by the whole
\* batch of the step (a key the store repeats is kept twice), and the loop
\* goes on exactly when the returned cursor is not 0.
C22_CursorScannerProtocol ==
    /\ [](\A p \in Callers :
            (pc[p] = "scan" /\ sent[p] = <<>>) => (iter[p] = 0 /\ keys[p] = <<>>))
    /\ [][\A p \in Callers :
            (pc[p] = "scan" /\ sent'[p] # sent[p]
               /\ (pc'[p] \in {"scan", "del"} \/ ret'[p].err = "nil"))
            => LET good == ScanReply(iter[p],
                                     ScanPattern(call[p].op, call[p].prefix, call[p].arg))
                   after == IF pc'[p] = "idle" THEN <<>> ELSE keys'[p]
               IN /\ pc'[p] = "scan" <=> good[1].n # 0
                  /\ pc'[p] = "scan" => iter'[p] = good[1].n
                  /\ after \in {keys[p] \o good[2].ks, keys[p] \o Repeated(good)[2].ks}]_vars

\* getKeys has returned, after a full walk, three keys of which one was
\* found in an earlier step than the others and one is a repetition.
C22_Witness ==
    \E p \in Callers :
        /\ pc[p] = "del" /\ Len(sent[p]) = NSlots /\ Len(keys[p]) = 3
        /\ Slot(keys[p][1]) # Slot(keys[p][3])
        /\ \E i \in 1..2 : keys[p][i] = keys[p][i + 1]

\* The errors of a SCAN step that failed or whose cursor or key list could
\* not be parsed.
ScanErrors == {"scan", "parse_iter", "parse_keys"}

\* C23: a scan step that fails aborts the bulk delete.  The step by which a
\* bulk delete returns a scan error changes nothing in the store; the call
\* has sent SCANs only, and no DEL; and a call only reaches its DEL after a
\* full walk of SCANs that all succeeded.
C23_ScanFailureDeletesNothing ==
    /\ [](\A p \in Callers :
            /\ (ret[p].op \in {"Empty", "EmptyByMatch"} /\ ret[p].err \in ScanErrors)
               => (OnlyScans(sent[p]) /\ Len(sent[p]) >= 1 /\ ret[p].ndel = 0)
            /\ pc[p] = "del" => (Len(sent[p]) = NSlots /\ iter[p] = 0))
    /\ [][\A p \in Callers :
            (pc[p] = "scan" /\ pc'[p] = "idle" /\ ret'[p].err # "nil")
            => (store' = store /\ OnlyScans(sent'[p]))]_vars

\* Empty() on the cache "p" has returned a scan error from its second SCAN,
\* and a key its first SCAN had found is still there.
C23_Witness ==
    \E p \in Callers :
        /\ ret[p].op = "Empty" /\ ret[p].prefix = <<"p">> /\ ret[p].err \in ScanErrors
        /\ sent[p] = <<"SCAN", "SCAN">>
        /\ \E k \in LogicalKeys :
              HasResult(<<"p">>, k) /\ Slot(WireKey(<<"p">>, k)) = 0

\* C24: a bulk delete is not atomic against a concurrent writer.  The DEL of
\* a bulk delete, when the store executes it, removes every key the scan had
\* found, a key that another caller's Set has written since included, and
\* changes nothing else.  A key leaves the store only by expiry, by the
\* Forget of that key, or by the DEL of a bulk call that had found it, so a
\* call that has returned undoes no later Set.  The value of a key changes
\* only by a Set of that key, to the encoding of the Set's value.
C24_BulkDeleteNotAtomic ==
    [][/\ \A p \in Callers :
             (pc[p] = "del" /\ pc'[p] = "idle" /\ ret'[p].err = "nil")
             => store' = Without(store, Range(keys[p]))
       /\ \A k \in DOMAIN store :
             k \notin DOMAIN store'
             => \/ store[k].exp = 1
                \/ \E p \in Callers :
                      /\ pc[p] \in {"del", "Forget"} /\ pc'[p] = "idle"
                      /\ pc[p] = "del" => k \in Range(keys[p])
                      /\ pc[p] = "Forget" => k = CallKey(p)
       /\ \A k \in DOMAIN store' :
             (k \notin DOMAIN store \/ store'[k].data # store[k].data)
             => \E q \in Callers :
                   /\ pc[q] = "Set" /\ pc'[q] = "idle" /\ k = CallKey(q)
                   /\ store'[k].data = SetEncoded(call[q].value).b]_vars

\* A bulk delete has found the key and is about to send its DEL, while the
\* key holds the value of a Set that another caller made, and that returned
\* nil, after the key was found.
C24_Witness ==
    \E p, q \in Callers, k \in DOMAIN since :
        /\ p # q /\ pc[p] = "del" /\ k \in Range(keys[p])
        /\ since[k].during /\ since[k].ok /\ Exists(k)
        /\ ret[q].op = "Set" /\ ret[q].err = "nil" /\ ret[q].val = Nil
        /\ WireKey(ret[q].prefix, ret[q].arg) = k
        /\ k \in DOMAIN lastSet /\ lastSet[k] = FortyTwo

\* C25: stale keys are tolerated.  When the batched DEL of Empty or
\* EmptyByMatch is executed and answered while one of the keys the scan
\* discovered is no longer in the store, the call returns nil and none of
\* the discovered keys is left in the store.
C25_StaleKeysTolerated ==
    [][\A p \in Callers :
          (/\ pc[p] = "del" /\ pc'[p] = "idle"
           /\ ret'[p].err # "transport"
           /\ \E k \in Range(keys[p]) : k \notin DOMAIN store)
          => (/\ ret'[p].err = "nil"
              /\ \A k \in Range(keys[p]) : k \notin DOMAIN store')]_vars

\* A bulk delete has returned nil whose DEL named one key that had vanished
\* since the scan and one that was still there, which it removed.
C25_Witness ==
    \E p \in Callers :
        /\ ret[p].op \in {"Empty", "EmptyByMatch"}
        /\ ret[p].err = "nil"
        /\ ret[p].stale = 1
        /\ ret[p].removed = 1

\* C26: match-pattern construction.  While getKeys runs, the MATCH argument
\* of its SCANs is prefix + ":*" for Empty(); for EmptyByMatch(p) it is
\* prefix + ":" + p + "*" when p is empty or ends in ':' and
\* prefix + ":" + p + ":*" otherwise; and it is the same for every SCAN of
\* the call.
C26_MatchPatternConstruction ==
    /\ [](\A p \in Callers :
            pc[p] = "scan" =>
               call[p].match =
                  IF call[p].op = "Empty" THEN call[p].prefix \o <<":", "*">>
                  ELSE IF call[p].arg = <<>> \/ call[p].arg[Len(call[p].arg)] = ":"
                       THEN call[p].prefix \o <<":">> \o call[p].arg \o <<"*">>
                       ELSE call[p].prefix \o <<":">> \o call[p].arg \o <<":", "*">>)
    /\ [][\A p \in Callers :
            (pc[p] = "scan" /\ pc'[p] = "scan") => call'[p].match = call[p].match]_vars

\* EmptyByMatch("u:") of the cache with prefix "p" has sent its first SCAN
\* with MATCH "p:u:*" and goes on scanning.
C26_Witness ==
    \E p \in Callers :
        /\ pc[p] = "scan"
        /\ call[p].op = "EmptyByMatch"
        /\ call[p].prefix = <<"p">>
        /\ call[p].arg = <<"u", ":">>
        /\ call[p].match = <<"p", ":", "u", ":", "*">>
        /\ sent[p] = <<"SCAN">>

C28_SingleKeyFrame ==
    [][\A p \in Callers : \A pf \in Prefixes : \A k \in LogicalKeys :
          (/\ call[p].prefix = pf /\ call[p].arg = k
           /\ pc[p] \in {"Has", "Get", "Set", "Forget"} /\ pc'[p] = "idle")
          => /\ pc[p] = "Has" =>
                   /\ sent'[p] = <<"EXISTS">> /\ store' = store
                   /\ ret'[p].err = "nil" => ret'[p].has = (WireKey(pf, k) \in DOMAIN store)
             /\ pc[p] = "Get" =>
                   /\ sent'[p] = <<"GET">> /\ store' = store
                   /\ (ret'[p].err = "nil" /\ ret'[p].val # Nil)
                         => WireKey(pf, k) \in DOMAIN store
             /\ (pc[p] = "Set" /\ SetEncoded(call[p].value).err = "nil") =>
                   sent'[p] \in {<<"SET">>, <<"SETEX">>}
             /\ pc[p] = "Forget" => sent'[p] = <<"DEL">>
             /\ pc[p] \in {"Set", "Forget"} =>
                   /\ DOMAIN store' \ {WireKey(pf, k)} = DOMAIN store \ {WireKey(pf, k)}
                   /\ \A j \in DOMAIN store \ {WireKey(pf, k)} : store'[j] = store[j]]_vars

\* A Set with an expiry has failed after its one SETEX, beside another key
\* that carries an expiry of its own.
C28_Witness ==
    \E p \in Callers :
        /\ ret[p].op = "Set" /\ ret[p].err = "transport"
        /\ sent[p] = <<"SETEX">>
        /\ \E j \in DOMAIN store :
              j # WireKey(ret[p].prefix, ret[p].arg) /\ store[j].exp > 0

\* C29: Set selects its command by the presence of the expiry argument.  A
\* Set whose value encodes sends SETEX when at least one expiry is passed and
\* SET when none is.  When it returns nil the key carries the first expiry
\* passed, or none if none was passed.  When the first expiry is zero or
\* negative, Set returns an error and the store is as it was before.
C29_SetexByPresence ==
    [][\A p \in Callers : \A ex \in ExpireArgs :
          (/\ pc[p] = "Set" /\ pc'[p] = "idle"
           /\ call[p].expires = ex
           /\ SetEncoded(call[p].value).err = "nil")
          => /\ sent'[p] = <<IF Len(ex) > 0 THEN "SETEX" ELSE "SET">>
             /\ ret'[p].err = "nil" =>
                   /\ CallKey(p) \in DOMAIN store'
                   /\ store'[CallKey(p)].exp = IF Len(ex) > 0 THEN ex[1] ELSE 0
             /\ (Len(ex) > 0 /\ ex[1] <= 0) =>
                   (ret'[p].err # "nil" /\ store' = store)]_vars

\* Set with expiry 0 on a key that held a value without expiry has sent its
\* SETEX, which the store rejected, and the key still holds that value.
C29_Witness ==
    \E p \in Callers :
        /\ ret[p].op = "Set" /\ ret[p].err = "store"
        /\ sent[p] = <<"SETEX">>
        /\ WireKey(ret[p].prefix, ret[p].arg) \in DOMAIN lastSet
        /\ WireKey(ret[p].prefix, ret[p].arg) \in DOMAIN store
        /\ store[WireKey(ret[p].prefix, ret[p].arg)].exp = 0

\* C30: a failed encode leaves the store untouched.  Set of a value gob
\* cannot serialize (a channel) returns an error, sends no command, leaves
\* the store as it was, and closes the connection it had borrowed.
C30_FailedEncodeSendsNothing ==
    [][\A p \in Callers :
          (pc[p] = "Set" /\ pc'[p] = "idle" /\ call[p].value = Chan)
          => /\ ret'[p].err = "encode"
             /\ sent'[p] = <<>>
             /\ store' = store
             /\ held[p] = 1 /\ held'[p] = 0]_vars

\* Set of a channel has returned the encode error on a key that holds the
\* value of an earlier Set; nothing was sent and no connection is left
\* borrowed.
C30_Witness ==
    \E p \in Callers :
        /\ ret[p].op = "Set" /\ ret[p].err = "encode"
        /\ sent[p] = <<>>
        /\ borrows[p] = 1 /\ held[p] = 0
        /\ WireKey(ret[p].prefix, ret[p].arg) \in DOMAIN lastSet
        /\ WireKey(ret[p].prefix, ret[p].arg) \in DOMAIN store

====
